---- MODULE Spec2Model ----
(***************************************************************************)
(* clusterbot (src/src/libbot.py, src/src/clusterbot.py).                  *)
(*                                                                         *)
(* Text is modelled as a sequence of tokens (strings): a token is either   *)
(* a single decimal digit, a single space, or a run of characters holding  *)
(* neither.  A log is a sequence of lines, a line a sequence of tokens.    *)
(* The message of a ClusterBot is one flat sequence of tokens, as the      *)
(* code's self.msg is one flat string.                                     *)
(***************************************************************************)
EXTENDS Integers, Sequences, FiniteSets, TLC

VARIABLES
    test,       \* the --test_mode argument handed to every ClusterBot
    services,   \* the --services argument: a sequence of service names
    disk,       \* the files on disk: a function from file name to log
    cluster,    \* what the cluster's commands print (live mode)
    bots,       \* the ClusterBot objects
    out,        \* the last text print()ed or POSTed by send_data
    nexp,       \* probe specification: the expected count handed to a probe
    res         \* probe specification: the result of the last probe call

vars == <<test, services, disk, cluster, bots, out, nexp, res>>

----------------------------------------------------------------------------
(* Bounds of the model.                                                    *)

MaxLines == 4       \* lines of a log drawn for a single probe call
MaxExpected == 3    \* largest expected count drawn for a single probe call
MaxSel == 2         \* length of the service selection
MaxBad == 1         \* fixtures / cluster components that are not healthy
MaxClock == 1       \* wall-clock readings are 0..MaxClock
MaxRuns == 2        \* run_all calls on one ClusterBot
MaxKept == 3        \* lines of a log kept on the disk between return_log calls

(* The default nslave_expected / nnode_expected of every check_* method.   *)
NSlaveExpected == 9

----------------------------------------------------------------------------
(* Text helpers.                                                           *)

Digits == <<"0", "1", "2", "3", "4", "5", "6", "7", "8", "9">>

DigitSet == {Digits[i] : i \in 1..10}

\* str.isnumeric() on one character
IsNumeric(c) == c \in DigitSet

\* int(c) for one numeric character
IntOfChar(c) == (CHOOSE i \in 1..10 : Digits[i] = c) - 1

RECURSIVE NatToStr(_)
NatToStr(n) ==
    IF n < 10 THEN <<Digits[n + 1]>>
    ELSE NatToStr(n \div 10) \o <<Digits[(n % 10) + 1]>>

\* "{}".format(n) for an int n
IntToStr(n) == IF n < 0 THEN <<"-">> \o NatToStr(0 - n) ELSE NatToStr(n)

\* Python's a & b on non-negative ints
RECURSIVE BitAnd(_, _)
BitAnd(a, b) ==
    IF a = 0 \/ b = 0 THEN 0
    ELSE ((a % 2) * (b % 2)) + 2 * BitAnd(a \div 2, b \div 2)

\* the one element of a singleton: The({F(x) : x \in {e}}) is F(e) with e
\* evaluated once
The(S) == CHOOSE x \in S : TRUE

\* marker is a substring of the token tok
SubStr(marker, tok) ==
    \/ tok = marker
    \/ marker = "--- " /\ tok = "--- slave"

\* Python's `marker in line`
InLine(marker, line) == \E i \in DOMAIN line : SubStr(marker, line[i])

\* [line for line in log if marker in line]
SelectLines(marker, log) == SelectSeq(log, LAMBDA line : InLine(marker, line))

\* len([line for line in log if marker in line])
CountLines(marker, log) == Len(SelectLines(marker, log))

\* date.replace(" ", "_")
ReplaceSpaces(s) == [i \in DOMAIN s |-> IF s[i] = " " THEN "_" ELSE s[i]]

\* time.ctime() when the wall clock reads now
Ctime(now) == <<"Thu", " ", "Jan", " ">> \o IntToStr(now + 1) \o <<" ", "1970">>

----------------------------------------------------------------------------
(* The cluster: the health of each component ("ok", "fail": slave 9 is    *)
(* down, "broken": the command prints nothing) and what each command       *)
(* prints, line by line.                                                   *)

Kinds == {"ok", "fail", "broken"}

Components == {"yarn", "ping", "jps", "hdfs"}

\* the slaves of the cluster are slave1 .. slave9
Slaves == 1..NSlaveExpected

IsDown(i, kind) == kind = "fail" /\ i = NSlaveExpected

\* yarn node -list -all
YarnLines(kind) ==
    IF kind = "broken" THEN <<>>
    ELSE << <<"Total Nodes:">> \o IntToStr(NSlaveExpected) >>
         \o [i \in Slaves |-> <<"slave">> \o IntToStr(i)
                              \o <<":", IF IsDown(i, kind) THEN "LOST" ELSE "RUNNING">>]

\* ping -c 1 slave<i>
PingLines(i, kind) ==
    IF kind = "broken" \/ i \notin Slaves THEN <<>>
    ELSE << <<"--- slave">> \o IntToStr(i) \o <<" ping statistics ---">> >>
         \o (IF IsDown(i, kind) THEN <<>>
             ELSE << <<"1", " ", "packets ", "transmitted">> >>)

\* sudo -i ssh slave<i> jps -lm
JpsLines(i, kind) ==
    IF kind = "broken" \/ i \notin Slaves THEN <<>>
    ELSE IF IsDown(i, kind)
    THEN << <<"ssh: slave">> \o IntToStr(i) \o <<" ", "unavailable">> >>
    ELSE << <<"pid", " ", "org.apache.", "spark", ".deploy.worker.Worker">>,
            <<"pid", " ", "org.apache.hadoop.hdfs.server.datanode.DataNode">> >>

\* hdfs dfsadmin -report
HdfsLines(kind) ==
    CASE kind = "ok" ->
           << <<"Live datanodes", " (">> \o IntToStr(NSlaveExpected) \o <<"):">> >>
      [] kind = "fail" ->
           << <<"Live datanodes", " (">> \o IntToStr(NSlaveExpected - 1) \o <<"):">>,
              <<"Dead", " datanodes (", "1", "):">> >>
      [] OTHER -> <<>>

NoCmd == [kind |-> "none", arg |-> 0]

RECURSIVE PingAll(_, _, _)
PingAll(i, n, kind) ==
    IF i > n THEN <<>> ELSE PingLines(i, kind) \o PingAll(i + 1, n, kind)

\* echo --- <i> ---
EchoLines(i) == << <<"--- ">> \o IntToStr(i) \o <<" ---">> >>

\* the output of the shell command cmd on the cluster cl
Exec(cmd, cl) ==
    CASE cmd.kind = "yarn" -> YarnLines(cl.yarn)
      [] cmd.kind = "ping" -> PingAll(1, cmd.arg, cl.ping)
      [] cmd.kind = "echo" -> EchoLines(cmd.arg)
      [] cmd.kind = "jps"  -> JpsLines(cmd.arg, cl.jps)
      [] cmd.kind = "hdfs" -> HdfsLines(cl.hdfs)
      [] OTHER -> <<>>

----------------------------------------------------------------------------
(* return_log                                                              *)

WriteFile(dsk, name, content) ==
    [f \in (DOMAIN dsk) \cup {name} |-> IF f = name THEN content ELSE dsk[f]]

RemoveFile(dsk, name) == [f \in (DOMAIN dsk) \ {name} |-> dsk[f]]

\* os.system(cmd + " >> logname"): the shell appends, creating the file
Redirect(dsk, name, lines) ==
    WriteFile(dsk, name, (IF name \in DOMAIN dsk THEN dsk[name] ELSE <<>>) \o lines)

\* return_log removing the log whenever clean_log is set, offline too
ReturnLogAlwaysCleans(cmd, logname, clean_log, dsk, cl) ==
    LET live == cmd # NoCmd
        Read(d1) ==
            IF logname \notin DOMAIN d1
            THEN [err |-> "FileNotFoundError", data |-> <<>>, disk |-> d1]
            ELSE [err |-> "", data |-> d1[logname],
                  disk |-> IF clean_log THEN RemoveFile(d1, logname) ELSE d1]
    IN  The({Read(d1) :
             d1 \in {IF live THEN Redirect(dsk, logname, Exec(cmd, cl)) ELSE dsk}})

\* return_log(cmd, logname, clean_log) on the disk dsk and the cluster cl:
\* the exception raised ("" for none), the lines read and the disk left
ReturnLog(cmd, logname, clean_log, dsk, cl) ==
    LET live == cmd # NoCmd
        Read(d1) ==
            IF logname \notin DOMAIN d1
            THEN [err |-> "FileNotFoundError", data |-> <<>>, disk |-> d1]
            ELSE [err |-> "", data |-> d1[logname],
                  disk |-> IF clean_log /\ live THEN RemoveFile(d1, logname) ELSE d1]
    IN  The({Read(d1) :
             d1 \in {IF live THEN Redirect(dsk, logname, Exec(cmd, cl)) ELSE dsk}})

\* the name of a live log: prefix + self.date.replace(" ", "_")
LogName(prefix, date) == <<prefix>> \o ReplaceSpaces(date)

----------------------------------------------------------------------------
(* The probes.  Each returns the exception raised ("" for none), the       *)
(* message and the disk it leaves.                                         *)

OkGlyph == ":white_check_mark:"
RedGlyph == ":red_circle:"
BlackGlyph == ":black_circle:"

Raised(e, dsk) == [err |-> e, msg |-> <<>>, disk |-> dsk]

Returned(m, dsk) == [err |-> "", msg |-> m, disk |-> dsk]

\* "<glyph><label>({}/{}<tail>".format(n, expected)
Fraction(glyph, label, n, expected, tail) ==
    <<glyph, label>> \o IntToStr(n) \o <<"/">> \o IntToStr(expected) \o <<tail>>

\* check_yarn taking "at least the expected count" for healthy
CheckYarnAtLeast(tst, date, dsk, cl, nslave_expected, logtest) ==
    LET cmd == IF tst THEN NoCmd ELSE [kind |-> "yarn", arg |-> 0]
        logname == IF tst THEN logtest ELSE LogName("yarn_", date)
        Render(r, nslave) ==
            IF r.err # "" THEN Raised(r.err, r.disk)
            ELSE IF nslave >= nslave_expected
            THEN Returned(Fraction(OkGlyph, " YARN monitoring (", nslave,
                                   nslave_expected, " slaves up)\n"), r.disk)
            ELSE Returned(Fraction(RedGlyph, " YARN monitoring (", nslave,
                                   nslave_expected, " slaves up)\n")
                          \o <<"_run <yarn node -list -all> for more information_\n">>,
                          r.disk)
    IN  The({Render(r, CountLines("RUNNING", r.data)) :
             r \in {ReturnLog(cmd, logname, TRUE, dsk, cl)}})

CheckYarn(tst, date, dsk, cl, nslave_expected, logtest) ==
    LET cmd == IF tst THEN NoCmd ELSE [kind |-> "yarn", arg |-> 0]
        logname == IF tst THEN logtest ELSE LogName("yarn_", date)
        Render(r, nslave) ==
            IF r.err # "" THEN Raised(r.err, r.disk)
            ELSE IF nslave = nslave_expected
            THEN Returned(Fraction(OkGlyph, " YARN monitoring (", nslave,
                                   nslave_expected, " slaves up)\n"), r.disk)
            ELSE Returned(Fraction(RedGlyph, " YARN monitoring (", nslave,
                                   nslave_expected, " slaves up)\n")
                          \o <<"_run <yarn node -list -all> for more information_\n">>,
                          r.disk)
    IN  The({Render(r, CountLines("RUNNING", r.data)) :
             r \in {ReturnLog(cmd, logname, TRUE, dsk, cl)}})

\* Python's  a == b & c == d  is the chain  a == (b & c) == d
ChainEqAnd(a, b, c, d) == a = BitAnd(b, c) /\ BitAnd(b, c) = d

CheckExecutors(tst, date, dsk, cl, nslave_expected, logtest) ==
    LET cmd == IF tst THEN NoCmd ELSE [kind |-> "ping", arg |-> nslave_expected]
        logname == IF tst THEN logtest ELSE LogName("executors_", date)
        Render(r, nslave, nslaveok) ==
            IF r.err # "" THEN Raised(r.err, r.disk)
            ELSE IF ChainEqAnd(nslave, nslave_expected, nslave, nslaveok)
            THEN Returned(Fraction(OkGlyph, " Executors (", nslaveok,
                                   nslave_expected, " slaves up)\n"), r.disk)
            ELSE Returned(Fraction(RedGlyph, " Executors (", nslaveok,
                                   nslave_expected, " slaves up)\n")
                          \o <<"_run <ping -c 1 slave#> for more information_\n">>,
                          r.disk)
    IN  The({Render(r, CountLines("--- slave", r.data),
                    CountLines("transmitted", r.data)) :
             r \in {ReturnLog(cmd, logname, TRUE, dsk, cl)}})

\* the loop over slaves of check_jvms and check_spark (live mode): the
\* lines gathered from slave i on, the exception raised and the disk left
RECURSIVE SlaveLoop(_, _, _, _, _, _)
SlaveLoop(i, n, logname, dsk, cl, acc) ==
    IF i > n THEN [err |-> "", data |-> acc, disk |-> dsk]
    ELSE LET Services(id, log) ==
                 IF log.err # "" THEN [err |-> log.err, data |-> acc, disk |-> log.disk]
                 ELSE SlaveLoop(i + 1, n, logname, log.disk, cl,
                                Append(acc, id.data[1]) \o log.data)
             Id(id) ==
                 IF id.err # "" THEN [err |-> id.err, data |-> acc, disk |-> id.disk]
                 ELSE IF id.data = <<>>
                 THEN [err |-> "IndexError", data |-> acc, disk |-> id.disk]
                 ELSE The({Services(id, log) :
                           log \in {ReturnLog([kind |-> "jps", arg |-> i], logname,
                                              TRUE, id.disk, cl)}})
         IN  The({Id(id) :
                  id \in {ReturnLog([kind |-> "echo", arg |-> i], logname,
                                    TRUE, dsk, cl)}})

\* check_jvms deciding on nslaves - problem == nslave_expected instead of
\* problem == 0
CheckJvmsByCount(tst, date, dsk, cl, nslave_expected, logtest) ==
    LET Render(r, problem, nslaves) ==
            IF r.err # "" THEN Raised(r.err, r.disk)
            ELSE IF nslaves - problem = nslave_expected
            THEN Returned(Fraction(OkGlyph, " inst. JVMs (", nslaves,
                                   nslave_expected, " slaves up)\n"), r.disk)
            ELSE Returned(Fraction(RedGlyph, " inst. JVMs (", nslaves - problem,
                                   nslave_expected, " slaves up)\n")
                          \o <<"_run <ssh slave# jps -lm> for more information_\n">>,
                          r.disk)
    IN  The({Render(r, CountLines("unavailable", r.data), CountLines("--- ", r.data)) :
             r \in {IF tst THEN ReturnLog(NoCmd, logtest, TRUE, dsk, cl)
                    ELSE SlaveLoop(1, nslave_expected, LogName("jvms_", date),
                                   dsk, cl, <<>>)}})

CheckJvms(tst, date, dsk, cl, nslave_expected, logtest) ==
    LET Render(r, problem, nslaves) ==
            IF r.err # "" THEN Raised(r.err, r.disk)
            ELSE IF problem = 0
            THEN Returned(Fraction(OkGlyph, " inst. JVMs (", nslaves,
                                   nslave_expected, " slaves up)\n"), r.disk)
            ELSE Returned(Fraction(RedGlyph, " inst. JVMs (", nslaves - problem,
                                   nslave_expected, " slaves up)\n")
                          \o <<"_run <ssh slave# jps -lm> for more information_\n">>,
                          r.disk)
    IN  The({Render(r, CountLines("unavailable", r.data), CountLines("--- ", r.data)) :
             r \in {IF tst THEN ReturnLog(NoCmd, logtest, TRUE, dsk, cl)
                    ELSE SlaveLoop(1, nslave_expected, LogName("jvms_", date),
                                   dsk, cl, <<>>)}})

CheckSpark(tst, date, dsk, cl, nslave_expected, logtest) ==
    LET Render(r, workers, nslaves) ==
            IF r.err # "" THEN Raised(r.err, r.disk)
            ELSE IF ChainEqAnd(workers, nslaves, workers, nslave_expected)
            THEN Returned(Fraction(OkGlyph, " Spark (", nslaves,
                                   nslave_expected, " slaves up)\n"), r.disk)
            ELSE Returned(Fraction(RedGlyph, " Spark (", workers,
                                   nslave_expected, " slaves up)\n")
                          \o <<"_run <ssh slave# jps -lm | grep spark> for more information_\n">>,
                          r.disk)
    IN  The({Render(r, CountLines("spark", r.data), CountLines("--- ", r.data)) :
             r \in {IF tst THEN ReturnLog(NoCmd, logtest, TRUE, dsk, cl)
                    ELSE SlaveLoop(1, nslave_expected, LogName("spark_", date),
                                   dsk, cl, <<>>)}})

\* [int(c) for c in line if c.isnumeric()]
NumericChars(line) == SelectSeq(line, IsNumeric)

\* live = [int(c) for c in live_tmp if c.isnumeric()][0]
FirstDigit(line) == IntOfChar(NumericChars(line)[1])

CheckHdfs(tst, date, dsk, cl, nnode_expected, logtest) ==
    LET cmd == IF tst THEN NoCmd ELSE [kind |-> "hdfs", arg |-> 0]
        logname == IF tst THEN logtest ELSE LogName("hdfs_", date)
        Render(r, problem, lives) ==
            IF r.err # "" THEN Raised(r.err, r.disk)
            ELSE IF lives = <<>> THEN Raised("IndexError", r.disk)
            ELSE IF NumericChars(lives[1]) = <<>> THEN Raised("IndexError", r.disk)
            ELSE IF problem = 0
            THEN Returned(Fraction(OkGlyph, " HDFS (", FirstDigit(lives[1]),
                                   nnode_expected, " DataNodes up)\n"), r.disk)
            ELSE Returned(Fraction(RedGlyph, " HDFS (", FirstDigit(lives[1]),
                                   nnode_expected, " DataNodes up)\n")
                          \o <<"_run <su -c 'hdfs dfsadmin -report' - hduser> for more information_\n">>,
                          r.disk)
    IN  The({Render(r, CountLines("Dead", r.data),
                    SelectLines("Live datanodes", r.data)) :
             r \in {ReturnLog(cmd, logname, TRUE, dsk, cl)}})

----------------------------------------------------------------------------
(* ClusterBot                                                              *)

\* self.username before run_all has set it
NoUser == "<unset>"

\* a ClusterBot not built yet.  calls and done count the run_all calls made
\* and completed, err is the exception the last run_all raised ("": none)
NoBot == [state |-> "none", date |-> <<>>, msg |-> <<>>,
          username |-> NoUser, calls |-> 0, done |-> 0, err |-> ""]

NoOut == [channel |-> "none", by |-> 0, text |-> <<>>, username |-> ""]

\* self.date read from the wall clock in test mode too
DateFromClock(tst, now) == Ctime(now)

\* self.date
Date(tst, now) == IF tst THEN <<"TEST">> ELSE Ctime(now)

\* "Cluster report ({})\n--------------------\n".format(self.date)
HeaderOpen == "Cluster report ("

HeaderClose == ")\n--------------------\n"

Header(date) == <<HeaderOpen>> \o date \o <<HeaderClose>>

\* ClusterBot(webhook_url, services, test) when the wall clock reads now
Constructed(tst, now) ==
    [state |-> "built", date |-> Date(tst, now),
     msg |-> Header(Date(tst, now)), username |-> NoUser,
     calls |-> 0, done |-> 0, err |-> ""]

Banner == [channel |-> "stdout", by |-> 0,
           text |-> <<"+-- RUNNING IN TEST MODE --+">>, username |-> ""]

\* the order in which run_all visits the services
Canonical == <<"executors", "jvms", "yarn", "hdfs", "spark">>

ProbeLabel ==
    [executors |-> " Executors (", jvms |-> " inst. JVMs (",
     yarn |-> " YARN monitoring (", hdfs |-> " HDFS (", spark |-> " Spark ("]

DisabledLabel ==
    [executors |-> " Executor monitoring disabled\n",
     jvms |-> " JVMs monitoring disabled\n",
     yarn |-> " YARN monitoring disabled\n",
     hdfs |-> " HDFS monitoring disabled\n",
     spark |-> " Spark monitoring disabled\n"]

\* the default logtest of each check_* method
Fixture ==
    [executors |-> <<"data/executor_test_OK.txt">>,
     jvms |-> <<"data/jvm_test_OK.txt">>,
     yarn |-> <<"data/yarn_test_OK.txt">>,
     hdfs |-> <<"data/hdfs_test_OK.txt">>,
     spark |-> <<"data/spark_test_OK.txt">>]

\* Python's `name in self.services`
InServices(name, svc) == \E i \in DOMAIN svc : svc[i] = name

\* the check_* method a block of run_all calls for the subsystem `name`
Check(name, tst, date, dsk, cl, nslave_expected, logtest) ==
    CASE name = "executors" -> CheckExecutors(tst, date, dsk, cl, nslave_expected, logtest)
      [] name = "jvms" -> CheckJvms(tst, date, dsk, cl, nslave_expected, logtest)
      [] name = "yarn" -> CheckYarn(tst, date, dsk, cl, nslave_expected, logtest)
      [] name = "hdfs" -> CheckHdfs(tst, date, dsk, cl, nslave_expected, logtest)
      [] OTHER -> CheckSpark(tst, date, dsk, cl, nslave_expected, logtest)

\* an if block of run_all that lacks its else branch
VisitNoPlaceholder(acc, name, svc, tst, date, cl) ==
    LET Block(a) ==
            IF a.err # "" THEN a
            ELSE IF InServices(name, svc)
            THEN The({[err |-> r.err, msg |-> a.msg \o r.msg, disk |-> r.disk] :
                      r \in {Check(name, tst, date, a.disk, cl, NSlaveExpected,
                                   Fixture[name])}})
            ELSE a
    IN  The({Block(a) : a \in {acc}})

\* one if/else block of run_all: acc is the exception raised so far, the
\* message and the disk
Visit(acc, name, svc, tst, date, cl) ==
    LET Block(a) ==
            IF a.err # "" THEN a
            ELSE IF InServices(name, svc)
            THEN The({[err |-> r.err, msg |-> a.msg \o r.msg, disk |-> r.disk] :
                      r \in {Check(name, tst, date, a.disk, cl, NSlaveExpected,
                                   Fixture[name])}})
            ELSE [a EXCEPT !.msg = @ \o <<BlackGlyph, DisabledLabel[name]>>]
    IN  The({Block(a) : a \in {acc}})

\* Python's `"red_circle" in self.msg`
HasRedCircle(msg) == \E i \in DOMAIN msg : msg[i] = RedGlyph

\* the verdict looking for "circle" instead of "red_circle"
VerdictAnyCircle(msg) ==
    IF \E i \in DOMAIN msg : msg[i] \in {RedGlyph, BlackGlyph}
    THEN "Problem(s) happened!" ELSE "Cluster alright!"

\* self.username as run_all sets it
Verdict(msg) ==
    IF HasRedCircle(msg) THEN "Problem(s) happened!" ELSE "Cluster alright!"

\* run_all with if blocks that lack their else branch
VisitsNoPlaceholder(bot, svc, tst, dsk, cl) ==
    LET a0 == [err |-> "", msg |-> bot.msg, disk |-> dsk]
        a1 == VisitNoPlaceholder(a0, "executors", svc, tst, bot.date, cl)
        a2 == VisitNoPlaceholder(a1, "jvms", svc, tst, bot.date, cl)
        a3 == VisitNoPlaceholder(a2, "yarn", svc, tst, bot.date, cl)
        a4 == VisitNoPlaceholder(a3, "hdfs", svc, tst, bot.date, cl)
    IN  VisitNoPlaceholder(a4, "spark", svc, tst, bot.date, cl)

\* run_all visiting the selected services in the order of the selection,
\* then the others
RECURSIVE VisitListed(_, _, _, _, _, _)
VisitListed(acc, names, svc, tst, date, cl) ==
    IF names = <<>> THEN acc
    ELSE VisitListed(Visit(acc, Head(names), svc, tst, date, cl),
                     Tail(names), svc, tst, date, cl)

VisitsInSelectionOrder(bot, svc, tst, dsk, cl) ==
    VisitListed([err |-> "", msg |-> bot.msg, disk |-> dsk],
                svc \o SelectSeq(Canonical, LAMBDA n : ~InServices(n, svc)),
                svc, tst, bot.date, cl)

\* the services run_all visits, in order: the exception raised, the
\* message and the disk that result
Visits(bot, svc, tst, dsk, cl) ==
    LET a0 == [err |-> "", msg |-> bot.msg, disk |-> dsk]
        a1 == Visit(a0, "executors", svc, tst, bot.date, cl)
        a2 == Visit(a1, "jvms", svc, tst, bot.date, cl)
        a3 == Visit(a2, "yarn", svc, tst, bot.date, cl)
        a4 == Visit(a3, "hdfs", svc, tst, bot.date, cl)
    IN  Visit(a4, "spark", svc, tst, bot.date, cl)

\* bot.run_all(): the bot and the disk that result
RanAll(bot, svc, tst, dsk, cl) ==
    LET After(a) ==
            [bot |-> [bot EXCEPT !.msg = a.msg,
                                 !.username = IF a.err = "" THEN Verdict(a.msg) ELSE @,
                                 !.calls = @ + 1,
                                 !.done = IF a.err = "" THEN @ + 1 ELSE @,
                                 !.err = a.err],
             disk |-> a.disk]
    IN  The({After(a) : a \in {Visits(bot, svc, tst, dsk, cl)}})

\* bot.send_data() by bot number b, the POST reaching the server or not:
\* what was last printed or posted, prev being what was before.  Reading
\* an unset self.username raises AttributeError before anything is posted
Sent(b, bot, tst, posted, prev) ==
    IF tst
    THEN [channel |-> "stdout", by |-> b, text |-> bot.msg, username |-> ""]
    ELSE IF bot.username = NoUser \/ ~posted
    THEN prev
    ELSE [channel |-> "webhook", by |-> b, text |-> bot.msg, username |-> bot.username]

----------------------------------------------------------------------------
(* The arguments and the environment of a run.                             *)

ServiceNames == {Canonical[i] : i \in DOMAIN Canonical}

Selections == UNION {[1..n -> ServiceNames] : n \in 0..MaxSel}

\* a fixture is the log of a healthy command or of one with slave 9 down,
\* or is "absent"
FixtureKinds == {"ok", "fail", "absent"}

\* the log a fixture of kind k holds
RECURSIVE JpsLog(_, _)
JpsLog(i, kind) ==
    IF i > NSlaveExpected THEN <<>>
    ELSE EchoLines(i) \o JpsLines(i, kind) \o JpsLog(i + 1, kind)

FixtureLog(name, kind) ==
    CASE name = "executors" -> PingAll(1, NSlaveExpected, kind)
      [] name = "yarn" -> YarnLines(kind)
      [] name = "hdfs" -> HdfsLines(kind)
      [] OTHER -> JpsLog(1, kind)

FewBad(k) == Cardinality({x \in DOMAIN k : k[x] # "ok"}) <= MaxBad

DiskOf(k) ==
    LET present == {n \in ServiceNames : k[n] # "absent"}
    IN  [f \in {Fixture[n] : n \in present} |->
            LET n == CHOOSE n \in present : Fixture[n] = f
            IN  FixtureLog(n, k[n])]

FixtureDisks == {DiskOf(k) : k \in {k \in [ServiceNames -> FixtureKinds] : FewBad(k)}}

Clusters == {k \in [Components -> Kinds] : FewBad(k)}

HealthyCluster == [c \in Components |-> "ok"]

EmptyDisk == [f \in {} |-> <<>>]

NoRes == [probe |-> "none", err |-> "", msg |-> <<>>]

Init ==
    /\ test \in BOOLEAN
    /\ services \in Selections
    /\ IF test THEN disk \in FixtureDisks /\ cluster = HealthyCluster
               ELSE disk = EmptyDisk /\ cluster \in Clusters
    /\ bots = [b \in {1, 2} |-> NoBot]
    /\ out = NoOut
    /\ nexp = NSlaveExpected
    /\ res = NoRes

Construct(b) ==
    /\ bots[b].state = "none"
    /\ \E now \in 0..MaxClock : bots' = [bots EXCEPT ![b] = Constructed(test, now)]
    /\ out' = IF test THEN Banner ELSE out
    /\ UNCHANGED <<test, services, disk, cluster, nexp, res>>

RunAll(b) ==
    /\ bots[b].state = "built"
    /\ bots[b].calls < MaxRuns
    /\ \E r \in {RanAll(bots[b], services, test, disk, cluster)} :
          /\ bots' = [bots EXCEPT ![b] = r.bot]
          /\ disk' = r.disk
    /\ UNCHANGED <<test, services, cluster, out, nexp, res>>

SendData(b) ==
    /\ bots[b].state = "built"
    /\ \E posted \in BOOLEAN : out' = Sent(b, bots[b], test, posted, out)
    /\ UNCHANGED <<test, services, disk, cluster, bots, nexp, res>>

Next == Construct(1) \/ RunAll(1) \/ SendData(1)

Spec == Init /\ [][Next]_vars

(* Two ClusterBots built from the same arguments on the same disk and      *)
(* cluster, each reading the wall clock on its own.                        *)
(* Both are built in test mode, at different readings of the clock, and    *)
(* both get the same run_all calls; either may send its data at any time.  *)
InitTwin == Init /\ test

TwinConstruct ==
    /\ \A b \in {1, 2} : bots[b].state = "none"
    /\ \E n1, n2 \in 0..MaxClock :
          /\ n1 # n2
          /\ bots' = [b \in {1, 2} |-> Constructed(test, IF b = 1 THEN n1 ELSE n2)]
    /\ out' = IF test THEN Banner ELSE out
    /\ UNCHANGED <<test, services, disk, cluster, nexp, res>>

TwinRunAll ==
    /\ \A b \in {1, 2} : bots[b].state = "built" /\ bots[b].calls < MaxRuns
    /\ \E r1 \in {RanAll(bots[1], services, test, disk, cluster)} :
          \E r2 \in {RanAll(bots[2], services, test, r1.disk, cluster)} :
              /\ bots' = [b \in {1, 2} |-> IF b = 1 THEN r1.bot ELSE r2.bot]
              /\ disk' = r2.disk
    /\ UNCHANGED <<test, services, cluster, out, nexp, res>>

NextTwin == TwinConstruct \/ TwinRunAll \/ SendData(1) \/ SendData(2)

SpecTwin == InitTwin /\ [][NextTwin]_vars

----------------------------------------------------------------------------
(* Reading a message back.                                                 *)

Labels(table) == {table[n] : n \in ServiceNames}

Hints ==
    { "_run <yarn node -list -all> for more information_\n",
      "_run <ping -c 1 slave#> for more information_\n",
      "_run <ssh slave# jps -lm> for more information_\n",
      "_run <ssh slave# jps -lm | grep spark> for more information_\n",
      "_run <su -c 'hdfs dfsadmin -report' - hduser> for more information_\n" }

\* where the entries of a probe (of a placeholder) of service n are
ProbeEntries(m, n) == {i \in DOMAIN m : m[i] = ProbeLabel[n]}

DisabledEntries(m, n) == {i \in DOMAIN m : m[i] = DisabledLabel[n]}

NumTokens(m, S) == Cardinality({i \in DOMAIN m : m[i] \in S})

\* the services of the entries of m, in the order of the text
EntryOrder(m) ==
    LET labels == SelectSeq(m, LAMBDA t : t \in Labels(ProbeLabel) \cup Labels(DisabledLabel))
    IN  [i \in DOMAIN labels |->
            CHOOSE n \in ServiceNames :
                labels[i] \in {ProbeLabel[n], DisabledLabel[n]}]

IsPrefix(p, q) == Len(p) <= Len(q) /\ SubSeq(q, 1, Len(p)) = p

Selected(n) == InServices(n, services)

\* the body of m holds one entry per service: a probe line for a selected
\* service, the placeholder for any other, and a hint per DEGRADED line
OneEntryEach(m) ==
    /\ \A n \in ServiceNames :
          IF Selected(n)
          THEN /\ DisabledEntries(m, n) = {}
               /\ Cardinality(ProbeEntries(m, n)) = 1
               /\ \A i \in ProbeEntries(m, n) : m[i - 1] \in {OkGlyph, RedGlyph}
          ELSE /\ ProbeEntries(m, n) = {}
               /\ Cardinality(DisabledEntries(m, n)) = 1
               /\ \A i \in DisabledEntries(m, n) : m[i - 1] = BlackGlyph
    /\ NumTokens(m, {OkGlyph, RedGlyph, BlackGlyph}) = Len(Canonical)
    /\ NumTokens(m, Hints) = NumTokens(m, {RedGlyph})
    /\ m[1] = HeaderOpen
    /\ \A i \in DOMAIN m :
          m[i] \in {OkGlyph, RedGlyph, BlackGlyph} =>
              \E k \in 1..(i - 1) : m[k] = HeaderClose

----------------------------------------------------------------------------
(* C1: once run_all has completed, the username is "Problem(s) happened!"  *)
(* if and only if the probe of a selected service rendered a red_circle    *)
(* line, and "Cluster alright!" otherwise; with no service selected it is  *)
(* "Cluster alright!".                                                     *)
C1_VerdictIsOrOverSelected ==
    bots[1].done >= 1 =>
        /\ bots[1].username \in {"Problem(s) happened!", "Cluster alright!"}
        /\ bots[1].username = "Problem(s) happened!"
              <=> \E n \in ServiceNames :
                      /\ Selected(n)
                      /\ \E i \in ProbeEntries(bots[1].msg, n) :
                             bots[1].msg[i - 1] = RedGlyph
        /\ services = <<>> => bots[1].username = "Cluster alright!"

\* a completed run_all with a DEGRADED line and a placeholder, Problem(s)
C1_Witness ==
    /\ bots[1].done >= 1
    /\ bots[1].username = "Problem(s) happened!"
    /\ \E n \in ServiceNames : ~Selected(n)

C3_CanonicalOrder ==
    [][bots'[1].calls = bots[1].calls + 1 =>
          LET m == bots[1].msg
              n == bots'[1].msg
              appended == SubSeq(n, Len(m) + 1, Len(n))
          IN  /\ IsPrefix(m, n)
              /\ IsPrefix(EntryOrder(appended), Canonical)
              /\ bots'[1].done = bots[1].done + 1 => EntryOrder(appended) = Canonical]_vars

\* run_all completed on a selection that repeats a name or lists two names
\* against the canonical order
C3_Witness ==
    /\ bots[1].done >= 1
    /\ Len(services) = 2
    /\ \E i, j \in DOMAIN Canonical :
          /\ services[1] = Canonical[i]
          /\ services[2] = Canonical[j]
          /\ i >= j

(* C8 as stated: run_all never aborts: every call completes, whatever the  *)
(* logs, and sets the verdict.                                             *)
C8_RunAllNeverAborts ==
    /\ bots[1].done = bots[1].calls
    /\ bots[1].calls >= 1 => bots[1].username # NoUser

(* C9 as stated: send_data prints or posts the message only if run_all has *)
(* completed before.                                                       *)
C9_DeliverOnlyFinalized ==
    (out.by = 1 /\ out.channel \in {"stdout", "webhook"}) => bots[1].done >= 1

(* C10: two ClusterBots built in test mode from the same selection on the  *)
(* same fixtures hold the same text after the same number of run_all       *)
(* calls, whatever the wall clock read when each was built; the header     *)
(* carries "TEST", and what is printed is text both hold.                  *)
C10_OfflineDeterministic ==
    test =>
        /\ \A b \in {1, 2} :
              bots[b].state = "built" => IsPrefix(Header(<<"TEST">>), bots[b].msg)
        /\ (/\ bots[1].state = "built" /\ bots[2].state = "built"
            /\ bots[1].calls = bots[2].calls)
              => /\ bots[1].msg = bots[2].msg
                 /\ bots[1].username = bots[2].username
        /\ (/\ out.by # 0
            /\ bots[1].state = "built" /\ bots[2].state = "built"
            /\ bots[1].calls = bots[2].calls)
              => IsPrefix(out.text, bots[1].msg) /\ IsPrefix(out.text, bots[2].msg)

\* both, built at different readings of the clock, have completed run_all
\* on a selection that names a service, and the second has printed its text
C10_Witness ==
    /\ test
    /\ bots[1].done >= 1 /\ bots[2].done >= 1
    /\ services # <<>>
    /\ out.by = 2
    /\ out.text = bots[2].msg

----------------------------------------------------------------------------
(* The probes applied to one log and one expected count.                   *)

ProbeFixture == <<"data/probe_test.txt">>

\* the lines a drawn log is made of: one family of lines per command
LineFamilies ==
    { { <<"slave", ":", "RUNNING">>, <<"slave", ":", "LOST">> },
      { <<"--- slave", " ping statistics ---">>, <<"packets ", "transmitted">> },
      { <<"--- ", "1", " ---">>,
        <<"ssh: slave", " ", "unavailable">>,
        <<"pid", " ", "org.apache.", "spark", ".deploy.worker.Worker">> },
      { <<"Live datanodes", " (", "9", "):">>,
        <<"Live datanodes", " (", "1", "2", "):">>,
        <<"Dead", " datanodes (", "1", "):">> } }

\* the logs drawn: up to MaxLines lines of one family, and the two jvm
\* fixtures of the doctest of check_jvms (9 slaves, none or one unavailable)
Logs == UNION {[1..n -> A] : n \in 0..MaxLines, A \in LineFamilies}
        \cup {FixtureLog("jvms", k) : k \in {"ok", "fail"}}

InitProbe ==
    /\ test = TRUE
    /\ services = <<>>
    /\ \E log \in Logs : disk = (ProbeFixture :> log)
    /\ cluster = HealthyCluster
    /\ bots = [b \in {1, 2} |-> NoBot]
    /\ out = NoOut
    /\ nexp \in 0..MaxExpected \cup {NSlaveExpected}
    /\ res = NoRes

ProbeResult(name, r) == [probe |-> name, err |-> r.err, msg |-> r.msg]

ProbeYarn ==
    /\ res' = ProbeResult("yarn",
                 CheckYarn(test, <<"TEST">>, disk, cluster, nexp, ProbeFixture))
    /\ UNCHANGED <<test, services, disk, cluster, bots, out, nexp>>

ProbeExecutors ==
    /\ res' = ProbeResult("executors",
                 CheckExecutors(test, <<"TEST">>, disk, cluster, nexp, ProbeFixture))
    /\ UNCHANGED <<test, services, disk, cluster, bots, out, nexp>>

ProbeJvms ==
    /\ res' = ProbeResult("jvms",
                 CheckJvms(test, <<"TEST">>, disk, cluster, nexp, ProbeFixture))
    /\ UNCHANGED <<test, services, disk, cluster, bots, out, nexp>>

ProbeSpark ==
    /\ res' = ProbeResult("spark",
                 CheckSpark(test, <<"TEST">>, disk, cluster, nexp, ProbeFixture))
    /\ UNCHANGED <<test, services, disk, cluster, bots, out, nexp>>

ProbeHdfs ==
    /\ res' = ProbeResult("hdfs",
                 CheckHdfs(test, <<"TEST">>, disk, cluster, nexp, ProbeFixture))
    /\ UNCHANGED <<test, services, disk, cluster, bots, out, nexp>>

NextProbe == ProbeYarn \/ ProbeExecutors \/ ProbeJvms \/ ProbeSpark \/ ProbeHdfs

SpecProbe == InitProbe /\ [][NextProbe]_vars

----------------------------------------------------------------------------
(* Reading a rendered probe line back.                                     *)

\* the log handed to the probe
TheLog == disk[ProbeFixture]

\* the status glyph of a rendered line
Glyph(m) == m[1]

SlashAt(m) == CHOOSE i \in DOMAIN m : m[i] = "/"

\* the tokens of the count shown before the slash
ShownTokens(m) == SubSeq(m, 3, SlashAt(m) - 1)

\* the tokens of the expected count shown after the slash
ExpectedTokens(m) ==
    LET s == SlashAt(m)
        e == CHOOSE k \in (s + 1)..Len(m) :
                 /\ m[k] \notin DigitSet \cup {"-"}
                 /\ \A j \in (s + 1)..(k - 1) : m[j] \in DigitSet \cup {"-"}
    IN  SubSeq(m, s + 1, e - 1)

RECURSIVE ParseNat(_)
ParseNat(t) ==
    IF t = <<>> THEN 0
    ELSE 10 * ParseNat(SubSeq(t, 1, Len(t) - 1)) + IntOfChar(t[Len(t)])

ParseInt(t) == IF t[1] = "-" THEN 0 - ParseNat(Tail(t)) ELSE ParseNat(t)

\* the first maximal run of digits of a line
RECURSIVE DigitRunFrom(_, _)
DigitRunFrom(line, i) ==
    IF i > Len(line) \/ ~IsNumeric(line[i]) THEN <<>>
    ELSE <<line[i]>> \o DigitRunFrom(line, i + 1)

DigitRun(line) ==
    IF \E i \in DOMAIN line : IsNumeric(line[i])
    THEN DigitRunFrom(line, CHOOSE i \in DOMAIN line :
                                /\ IsNumeric(line[i])
                                /\ \A j \in 1..(i - 1) : ~IsNumeric(line[j]))
    ELSE <<>>

Rendered(name) == res.probe = name /\ res.err = ""

----------------------------------------------------------------------------
C5_ExecutorsLogicalAnd ==
    Rendered("executors") =>
        (Glyph(res.msg) = OkGlyph
            <=> /\ CountLines("--- slave", TheLog) = nexp
                /\ CountLines("transmitted", TheLog) = nexp)

(* C6 as stated: check_spark is OK if and only if the worker count equals  *)
(* the host-delimiter count and the worker count equals the expected one.  *)
C6_SparkLogicalAnd ==
    Rendered("spark") =>
        (Glyph(res.msg) = OkGlyph
            <=> /\ CountLines("spark", TheLog) = CountLines("--- ", TheLog)
                /\ CountLines("spark", TheLog) = nexp)

(* C7 as stated: the live count check_hdfs shows is the full digit run of  *)
(* the "Live datanodes" line, and the status is OK iff no line has "Dead". *)
C7_HdfsFullDigitRun ==
    Rendered("hdfs") =>
        /\ ShownTokens(res.msg) = DigitRun(SelectLines("Live datanodes", TheLog)[1])
        /\ Glyph(res.msg) = OkGlyph <=> CountLines("Dead", TheLog) = 0

\* the remediation hint that ends a DEGRADED line of check_jvms
JvmsHint == "_run <ssh slave# jps -lm> for more information_\n"

(* C12: check_jvms renders OK iff no line of the log contains             *)
(* "unavailable", whatever the count of "--- " lines and the expected      *)
(* count are; an OK line shows the count of "--- " lines; a DEGRADED line  *)
(* shows that count minus the count of "unavailable" lines and ends with   *)
(* the hint; 9 delimiters and 1 "unavailable" line with 9 expected is a    *)
(* DEGRADED line showing 8/9.                                              *)
C12_JvmsProblemCount ==
    Rendered("jvms") =>
        LET problem == CountLines("unavailable", TheLog)
            nslaves == CountLines("--- ", TheLog)
            m == res.msg
        IN  /\ Glyph(m) \in {OkGlyph, RedGlyph}
            /\ Glyph(m) = OkGlyph <=> problem = 0
            /\ ParseInt(ExpectedTokens(m)) = nexp
            /\ problem = 0 =>
                   /\ ParseInt(ShownTokens(m)) = nslaves
                   /\ m[Len(m)] # JvmsHint
            /\ problem # 0 =>
                   /\ ParseInt(ShownTokens(m)) = nslaves - problem
                   /\ m[Len(m)] = JvmsHint
            /\ (nslaves = 9 /\ problem = 1 /\ nexp = 9) =>
                   /\ ShownTokens(m) = <<"8">>
                   /\ ExpectedTokens(m) = <<"9">>

\* the jvm fixture with 9 delimiters and one "unavailable" line, 9
\* expected: a DEGRADED line showing 8/9 with the hint
C12_Witness ==
    /\ Rendered("jvms")
    /\ CountLines("--- ", TheLog) = 9
    /\ CountLines("unavailable", TheLog) = 1
    /\ nexp = 9
    /\ Glyph(res.msg) = RedGlyph
    /\ ShownTokens(res.msg) = <<"8">>
    /\ res.msg[Len(res.msg)] = JvmsHint

----------------------------------------------------------------------------
(* return_log called on its own: any command or none, any clean_log, on a *)
(* disk that earlier calls have left.                                      *)

\* the log of the doctest of return_log
MyLog == <<"data/myLog.txt">>

LogNames == {MyLog, ProbeFixture}

\* the commands handed to return_log: echo --- 1 ---, jps on slave 9
Commands == {[kind |-> "echo", arg |-> 1], [kind |-> "jps", arg |-> NSlaveExpected]}

InitLog ==
    /\ test = FALSE
    /\ services = <<>>
    /\ disk \in {EmptyDisk, (ProbeFixture :> EchoLines(NSlaveExpected))}
    /\ cluster \in {[HealthyCluster EXCEPT !.jps = k] : k \in Kinds}
    /\ bots = [b \in {1, 2} |-> NoBot]
    /\ out = NoOut
    /\ nexp = NSlaveExpected
    /\ res = NoRes

\* what a call of return_log leaves: the disk, and in res the arguments,
\* the disk before the call, the exception raised and the lines returned
Called(cmd, logname, clean_log, r) ==
    /\ \A f \in DOMAIN r.disk : Len(r.disk[f]) <= MaxKept
    /\ disk' = r.disk
    /\ res' = [probe |-> "return_log", err |-> r.err, msg |-> r.data,
               cmd |-> cmd, logname |-> logname, clean_log |-> clean_log,
               before |-> disk]
    /\ UNCHANGED <<test, services, cluster, bots, out, nexp>>

\* return_log(cmd, logname, clean_log) with a command
RunCommand ==
    \E cmd \in Commands, logname \in LogNames, clean_log \in BOOLEAN :
        \E r \in {ReturnLog(cmd, logname, clean_log, disk, cluster)} :
            Called(cmd, logname, clean_log, r)

\* return_log(None, logname, clean_log)
ReadFixture ==
    \E logname \in LogNames, clean_log \in BOOLEAN :
        \E r \in {ReturnLog(NoCmd, logname, clean_log, disk, cluster)} :
            Called(NoCmd, logname, clean_log, r)

NextLog == RunCommand \/ ReadFixture

SpecLog == InitLog /\ [][NextLog]_vars

\* the last call of return_log returned (raised nothing)
LogReturned == res.probe = "return_log" /\ res.err = ""

(* C11: once return_log returns, with a command and clean_log true the    *)
(* log file no longer exists; with a command and clean_log false the log   *)
(* file is retained and holds the lines returned; with cmd None the disk   *)
(* is as it was before the call (nothing executed, nothing deleted),       *)
(* whatever clean_log is, also when the call raises.  No call touches a    *)
(* file other than logname.                                                *)
C11_LogLifecycle ==
    res.probe = "return_log" =>
        /\ (LogReturned /\ res.cmd # NoCmd /\ res.clean_log) =>
               res.logname \notin DOMAIN disk
        /\ (LogReturned /\ res.cmd # NoCmd /\ ~res.clean_log) =>
               /\ res.logname \in DOMAIN disk
               /\ disk[res.logname] = res.msg
        /\ res.cmd = NoCmd => disk = res.before
        /\ \A f \in (DOMAIN disk \cup DOMAIN res.before) \ {res.logname} :
               /\ f \in DOMAIN disk \cap DOMAIN res.before
               /\ disk[f] = res.before[f]

\* a log retained by an earlier call is appended to, read and removed by a
\* call with a command and clean_log true
C11_Witness ==
    /\ LogReturned
    /\ res.cmd # NoCmd
    /\ res.clean_log
    /\ res.logname \in DOMAIN res.before
    /\ Len(res.msg) > Len(res.before[res.logname])
    /\ res.logname \notin DOMAIN disk

====
